---- MODULE Spec2Model ----
(***************************************************************************)
(* Model of package urlshort (handler.go): MapHandler, YAMLHandler,        *)
(* parseYAML and makeYAMLToMap, and of the requests served by the          *)
(* http.HandlerFunc they return.                                           *)
(*                                                                         *)
(* A Go string is a finite sequence of characters.  A map[string]string    *)
(* is a function whose DOMAIN is its key set.  The calls a handler makes   *)
(* on net/http (http.Redirect, fallback.ServeHTTP) are recorded, in order, *)
(* with their arguments; what net/http does with them is outside the       *)
(* package.                                                                *)
(***************************************************************************)
EXTENDS Integers, Sequences, FiniteSets, TLC

VARIABLES built, yml, handler, err, log

vars == <<built, yml, handler, err, log>>

----------------------------------------------------------------------------
(* Bounds *)

\* longest request path, map key and url
MaxPathLen == 2
\* most entries of a mapping, most items of a YAML list
MaxEntries == 2
\* most requests served by a handler built by MapHandler
MaxRequests == 3
\* most requests served by a handler built by YAMLHandler
MaxYAMLRequests == 1

----------------------------------------------------------------------------
(* Values *)

\* http.StatusFound
StatusFound == 302

\* the characters strings are made of
Chars == {"/"}

\* the strings of at most n characters; <<>> is the empty string ""
Strings(n) == UNION {[1..k -> Chars] : k \in 0..n}

\* r.URL.Path, and the keys of pathsToUrls
Paths == Strings(MaxPathLen)

\* the values of pathsToUrls
URLs == Strings(MaxPathLen)

\* the sequences over S of at most n elements
SeqUpTo(S, n) == UNION {[1..k -> S] : k \in 0..n}

\* map[string]string values with at most MaxEntries keys
Maps == UNION {[K -> URLs] : K \in {K \in SUBSET Paths : Cardinality(K) <= MaxEntries}}

\* make(map[string]string)
EmptyMap == [k \in {} |-> <<>>]

\* the nil error, the nil http.HandlerFunc
NilErr == "nil"
NilHandler == [nil |-> TRUE]

\* the one fallback http.Handler the caller passes
Fallback == "fallback"

\* a YAML key that an item does not have
Absent == <<"~">>

\* the items of a YAML list: a mapping with an optional path and an optional
\* url key, or a scalar (which is no YAMLPathURL)
Nodes == {[kind |-> "scalar", path |-> Absent, url |-> Absent]}
         \cup [kind : {"map"}, path : Paths \cup {Absent}, url : URLs \cup {Absent}]

\* the YAML texts: one that is not well-formed YAML, and the lists of at most
\* MaxEntries items
YAMLDocs == {[wellFormed |-> FALSE, nodes |-> <<>>]}
            \cup [wellFormed : {TRUE}, nodes : SeqUpTo(Nodes, MaxEntries)]

\* no YAML text was given (the handler was built by MapHandler)
NoYAML == [given |-> FALSE]

\* the request with URL.Path = path
Request(path) == [URL |-> [Path |-> path]]

----------------------------------------------------------------------------
(* handler.go *)

\* s is a prefix of t
IsPrefix(s, t) == Len(s) <= Len(t) /\ SubSeq(t, 1, Len(s)) = s

\* the paths met from x by following pathsToUrls for at most n steps
RECURSIVE Follow(_, _, _)
Follow(pathsToUrls, x, n) ==
    IF n = 0 \/ x \notin DOMAIN pathsToUrls
    THEN {x}
    ELSE {x} \cup Follow(pathsToUrls, pathsToUrls[x], n - 1)

\* path is a key whose redirects lead back to path
OnCycle(pathsToUrls, path) ==
    /\ path \in DOMAIN pathsToUrls
    /\ path \in Follow(pathsToUrls, pathsToUrls[path], Cardinality(DOMAIN pathsToUrls))

\* lookup without the ok test: a missing key yields the zero value ""
lookupZeroValue(pathsToUrls, path) ==
    IF path \in DOMAIN pathsToUrls
    THEN [url |-> pathsToUrls[path], ok |-> TRUE]
    ELSE [url |-> <<>>, ok |-> TRUE]

\* lookup by the longest key that is a prefix of path
lookupPrefix(pathsToUrls, path) ==
    LET keys == {k \in DOMAIN pathsToUrls : IsPrefix(k, path)}
    IN IF keys # {}
       THEN [url |-> pathsToUrls[CHOOSE k \in keys : \A j \in keys : Len(j) <= Len(k)],
             ok |-> TRUE]
       ELSE [url |-> <<>>, ok |-> FALSE]

\* lookup that takes an empty url for a missing key
lookupNonEmpty(pathsToUrls, path) ==
    IF path \in DOMAIN pathsToUrls /\ pathsToUrls[path] # <<>>
    THEN [url |-> pathsToUrls[path], ok |-> TRUE]
    ELSE [url |-> <<>>, ok |-> FALSE]

\* url, ok := pathsToUrls[path]
lookup(pathsToUrls, path) ==
    IF path \in DOMAIN pathsToUrls
    THEN [url |-> pathsToUrls[path], ok |-> TRUE]
    ELSE [url |-> <<>>, ok |-> FALSE]

\* the call http.Redirect(w, r, url, code)
Redirect(w, r, url, code) == [fn |-> "http.Redirect", args |-> <<w, r, url, code>>]

\* the call h.ServeHTTP(w, r)
ServeHTTPCall(h, w, r) == [fn |-> "ServeHTTP", args |-> <<h, w, r>>]

\* the closure without its return: the fallback runs after the redirect
handlerFuncFallThrough(h, w, r) ==
    LET path == r.URL.Path
        l == lookup(h.pathsToUrls, path)
    IN IF l.ok
       THEN <<Redirect(w, r, l.url, StatusFound), ServeHTTPCall(h.fallback, w, r)>>
       ELSE <<ServeHTTPCall(h.fallback, w, r)>>

\* the closure with redirect-loop detection: a path on a cycle is delegated
handlerFuncLoopCheck(h, w, r) ==
    LET path == r.URL.Path
        l == lookup(h.pathsToUrls, path)
    IN IF l.ok /\ ~OnCycle(h.pathsToUrls, path)
       THEN <<Redirect(w, r, l.url, StatusFound)>>
       ELSE <<ServeHTTPCall(h.fallback, w, r)>>

\* the closure MapHandler returns, applied to (w, r): the calls it makes
handlerFunc(h, w, r) ==
    LET path == r.URL.Path
        l == lookup(h.pathsToUrls, path)
    IN IF l.ok
       THEN <<Redirect(w, r, l.url, StatusFound)>>
       ELSE <<ServeHTTPCall(h.fallback, w, r)>>

\* MapHandler: the closure over pathsToUrls and fallback
MapHandler(pathsToUrls, fallback) ==
    [pathsToUrls |-> pathsToUrls, fallback |-> fallback]

\* yaml.Unmarshal of one list item into a YAMLPathURL: a key the item does
\* not have leaves the field at its zero value ""
decodeNode(n) ==
    [Path |-> IF n.path = Absent THEN <<>> ELSE n.path,
     URL  |-> IF n.url = Absent THEN <<>> ELSE n.url]

\* parseYAML: yaml.Unmarshal(yml, &yamlPathURLs).  Text that is not YAML is
\* an error; an item that is no mapping is skipped and reported as an error
parseYAML(y) ==
    IF ~y.wellFormed
    THEN [yamlPathURLs |-> <<>>, err |-> "yaml: syntax error"]
    ELSE LET maps == SelectSeq(y.nodes, LAMBDA n : n.kind = "map")
         IN [yamlPathURLs |-> [i \in 1..Len(maps) |-> decodeNode(maps[i])],
             err |-> IF Len(maps) = Len(y.nodes) THEN NilErr
                     ELSE "yaml: unmarshal errors"]

\* the assignment that keeps the url a path already has
MapSetKeepFirst(pathsToUrls, path, url) ==
    [k \in DOMAIN pathsToUrls \cup {path} |->
        IF k \in DOMAIN pathsToUrls THEN pathsToUrls[k] ELSE url]

\* pathsToUrls[yamlPathURL.Path] = yamlPathURL.URL
MapSet(pathsToUrls, path, url) ==
    [k \in DOMAIN pathsToUrls \cup {path} |->
        IF k = path THEN url ELSE pathsToUrls[k]]

\* the loop of makeYAMLToMap over the items still to visit
RECURSIVE makeYAMLToMapLoop(_, _)
makeYAMLToMapLoop(pathsToUrls, yamlPathURLs) ==
    IF yamlPathURLs = <<>>
    THEN pathsToUrls
    ELSE makeYAMLToMapLoop(
             MapSet(pathsToUrls, Head(yamlPathURLs).Path, Head(yamlPathURLs).URL),
             Tail(yamlPathURLs))

\* makeYAMLToMap with a loop that starts at the second item
makeYAMLToMapSkipFirst(yamlPathURLs) ==
    makeYAMLToMapLoop(EmptyMap,
                      IF yamlPathURLs = <<>> THEN <<>> ELSE Tail(yamlPathURLs))

\* makeYAMLToMap
makeYAMLToMap(yamlPathURLs) == makeYAMLToMapLoop(EmptyMap, yamlPathURLs)

\* YAMLHandler that builds the handler before it looks at the error
YAMLHandlerKeepHandler(y, fallback) ==
    LET parsed == parseYAML(y)
    IN [handler |-> MapHandler(makeYAMLToMap(parsed.yamlPathURLs), fallback),
        err |-> parsed.err]

\* YAMLHandler: the pair (handler, err) it returns
YAMLHandler(y, fallback) ==
    LET parsed == parseYAML(y)
    IN IF parsed.err # NilErr
       THEN [handler |-> NilHandler, err |-> parsed.err]
       ELSE [handler |-> MapHandler(makeYAMLToMap(parsed.yamlPathURLs), fallback),
             err |-> parsed.err]

----------------------------------------------------------------------------
(* The program: a handler is built once, then serves requests *)

Init ==
    /\ built = "none"
    /\ yml = NoYAML
    /\ handler = NilHandler
    /\ err = NilErr
    /\ log = <<>>

\* the caller builds the handler from a mapping
CallMapHandler ==
    /\ built = "none"
    /\ \E pathsToUrls \in Maps :
          /\ built' = "MapHandler"
          /\ handler' = MapHandler(pathsToUrls, Fallback)
    /\ UNCHANGED <<yml, err, log>>

\* the caller builds the handler from YAML text
CallYAMLHandler ==
    /\ built = "none"
    /\ \E y \in YAMLDocs :
          /\ built' = "YAMLHandler"
          /\ yml' = y
          /\ handler' = YAMLHandler(y, Fallback).handler
          /\ err' = YAMLHandler(y, Fallback).err
    /\ UNCHANGED log

\* the requests a handler may still serve
RequestsLeft ==
    IF built = "YAMLHandler"
    THEN Len(log) < MaxYAMLRequests
    ELSE Len(log) < MaxRequests

\* a handler that answers with what it looked up for the previous request
ServeHTTPCached(path) ==
    /\ handler # NilHandler
    /\ RequestsLeft
    /\ LET w == Len(log) + 1
           r == Request(path)
           cached == IF log = <<>> THEN r ELSE log[Len(log)].r
       IN log' = Append(log, [w |-> w, r |-> r,
                              calls |-> handlerFunc(handler, w, cached)])
    /\ UNCHANGED <<built, yml, handler, err>>

\* a handler that forgets a path once it has redirected it
ServeHTTPConsume(path) ==
    /\ handler # NilHandler
    /\ RequestsLeft
    /\ LET w == Len(log) + 1
           r == Request(path)
           m == handler.pathsToUrls
       IN /\ log' = Append(log, [w |-> w, r |-> r,
                                 calls |-> handlerFunc(handler, w, r)])
          /\ handler' = [handler EXCEPT
                            !.pathsToUrls = [k \in DOMAIN m \ {path} |-> m[k]]]
    /\ UNCHANGED <<built, yml, err>>

\* the server calls the handler with a fresh response writer w and a request
\* for path; the log keeps the calls the handler made
ServeHTTP(path) ==
    /\ handler # NilHandler
    /\ RequestsLeft
    /\ LET w == Len(log) + 1
           r == Request(path)
       IN log' = Append(log, [w |-> w, r |-> r, calls |-> handlerFunc(handler, w, r)])
    /\ UNCHANGED <<built, yml, handler, err>>

Next ==
    \/ CallMapHandler
    \/ CallYAMLHandler
    \/ \E path \in Paths : ServeHTTP(path)

Spec == Init /\ [][Next]_vars

----------------------------------------------------------------------------
(* Vocabulary of the properties *)

\* the mapping the handler holds
Mapping == handler.pathsToUrls

\* the requests served so far
Served == 1..Len(log)

\* the path of the i-th request
PathOf(i) == log[i].r.URL.Path

\* the i-th request was answered by one redirect with status 302 to url
RedirectedTo(i, url) ==
    log[i].calls = <<Redirect(log[i].w, log[i].r, url, StatusFound)>>

\* the i-th request was handed to the fallback, once, with its own response
\* writer and request, and nothing else was done
Delegated(i) ==
    log[i].calls = <<ServeHTTPCall(Fallback, log[i].w, log[i].r)>>

\* some call made for the i-th request is a redirect
SomeRedirect(i) ==
    \E c \in 1..Len(log[i].calls) : log[i].calls[c].fn = "http.Redirect"

\* some call made for the i-th request goes to the fallback
SomeFallback(i) ==
    \E c \in 1..Len(log[i].calls) : log[i].calls[c].fn = "ServeHTTP"

\* what was done for the i-th request, without the identity of the request
\* and of its response writer
ActionOfCall(c) ==
    IF c.fn = "http.Redirect"
    THEN <<"redirect", c.args[3], c.args[4]>>
    ELSE <<"delegate", c.args[1]>>
ActionOf(i) == [c \in 1..Len(log[i].calls) |-> ActionOfCall(log[i].calls[c])]

\* path is no key, and is a proper prefix or an extension of a key
NearKey(path) ==
    /\ path \notin DOMAIN Mapping
    /\ \E k \in DOMAIN Mapping : IsPrefix(path, k) \/ IsPrefix(k, path)

\* parsing the YAML text fails: it is not YAML, or not a list of mappings
ParseFails(y) ==
    \/ ~y.wellFormed
    \/ \E i \in 1..Len(y.nodes) : y.nodes[i].kind # "map"

\* YAMLHandler was called and returned no error
YAMLBuilt == built = "YAMLHandler" /\ err = NilErr

\* the parsed list of the YAML text
Listed == parseYAML(yml).yamlPathURLs

\* the last item of list with the given path
LastWith(list, path) ==
    CHOOSE i \in 1..Len(list) :
        /\ list[i].Path = path
        /\ \A j \in (i + 1)..Len(list) : list[j].Path # path

\* the mapping with each listed path as a key and its (last listed) url as
\* value
ListedMap(list) ==
    [path \in {list[i].Path : i \in 1..Len(list)} |-> list[LastWith(list, path)].URL]

----------------------------------------------------------------------------
(* Properties *)

\* C1: a request whose path is a key of the mapping is answered by exactly
\* one call, http.Redirect with status 302 and the url stored under the key;
\* the fallback is not invoked for it.
C1_KeyRedirects ==
    \A i \in Served :
        PathOf(i) \in DOMAIN Mapping =>
            /\ RedirectedTo(i, Mapping[PathOf(i)])
            /\ ~SomeFallback(i)

C1_Witness ==
    \E i \in Served :
        /\ PathOf(i) \in DOMAIN Mapping
        /\ Mapping[PathOf(i)] # <<>>
        /\ RedirectedTo(i, Mapping[PathOf(i)])

\* C2: a request whose path is no key of the mapping is handed to the
\* fallback exactly once, with the same response writer and request, and the
\* handler issues no redirect.
C2_MissDelegates ==
    \A i \in Served :
        PathOf(i) \notin DOMAIN Mapping =>
            /\ Delegated(i)
            /\ ~SomeRedirect(i)

C2_Witness ==
    \E i \in Served :
        /\ PathOf(i) \notin DOMAIN Mapping
        /\ DOMAIN Mapping # {}
        /\ Delegated(i)

\* C3: a request path that is no key but a proper prefix of a key, or a key
\* followed by more characters, is never redirected: it goes to the fallback.
C3_ExactMatchOnly ==
    \A i \in Served :
        NearKey(PathOf(i)) => Delegated(i) /\ ~SomeRedirect(i)

C3_Witness ==
    /\ \E i \in Served :
          /\ PathOf(i) \notin DOMAIN Mapping
          /\ \E k \in DOMAIN Mapping : k # <<>> /\ PathOf(i) = k \o <<"/">>
          /\ Delegated(i)
    /\ \E i \in Served :
          /\ PathOf(i) \notin DOMAIN Mapping
          /\ \E k \in DOMAIN Mapping : IsPrefix(PathOf(i), k)
          /\ Delegated(i)

\* C4: YAMLHandler returns an error exactly when parsing the YAML text
\* fails; with an error the handler is nil, without one it is not nil.
C4_ErrorIffParseFails ==
    built = "YAMLHandler" =>
        /\ (err # NilErr) <=> ParseFails(yml)
        /\ err # NilErr => handler = NilHandler
        /\ err = NilErr => handler # NilHandler

C4_Witness ==
    /\ built = "YAMLHandler"
    /\ yml.wellFormed
    /\ Len(yml.nodes) = 2
    /\ yml.nodes[1].kind = "map"
    /\ yml.nodes[2].kind = "scalar"
    /\ err # NilErr
    /\ handler = NilHandler

\* C5: the handler YAMLHandler returns for a successfully parsed list does,
\* for every request, what the handler MapHandler returns for the mapping of
\* the listed paths to their urls and the same fallback does.
C5_YAMLHandlerAsMapHandler ==
    YAMLBuilt =>
        LET h == MapHandler(ListedMap(Listed), Fallback)
        IN /\ \A path \in Paths, w \in 1..MaxYAMLRequests :
                 handlerFunc(handler, w, Request(path))
                     = handlerFunc(h, w, Request(path))
           /\ \A i \in Served :
                 log[i].calls = handlerFunc(h, log[i].w, log[i].r)

C5_Witness ==
    /\ YAMLBuilt
    /\ Len(Listed) = 2
    /\ Listed[1].Path # Listed[2].Path
    /\ \E i \in Served : PathOf(i) = Listed[1].Path /\ RedirectedTo(i, Listed[1].URL)

\* C6: two requests with the same path get the same action (a redirect to
\* the same url, or the delegation), whatever was served before them.
C6_SamePathSameAction ==
    \A i, j \in Served :
        PathOf(i) = PathOf(j) => ActionOf(i) = ActionOf(j)

C6_Witness ==
    /\ Len(log) = 3
    /\ PathOf(1) = PathOf(3)
    /\ PathOf(2) # PathOf(1)
    /\ ActionOf(1) = ActionOf(3)
    /\ ActionOf(2) # ActionOf(1)
    /\ SomeRedirect(1)

\* C7: a request for a path whose redirects lead back to it (its url is the
\* path itself, or the urls form a cycle over the paths) is still answered by
\* the redirect to the mapped url, never delegated.
C7_NoLoopDetection ==
    \A i \in Served :
        OnCycle(Mapping, PathOf(i)) =>
            /\ RedirectedTo(i, Mapping[PathOf(i)])
            /\ ~SomeFallback(i)

C7_Witness ==
    /\ Len(log) = 3
    /\ PathOf(1) # PathOf(2)
    /\ {PathOf(1), PathOf(2)} \subseteq DOMAIN Mapping
    /\ Mapping[PathOf(1)] = PathOf(2)
    /\ Mapping[PathOf(2)] = PathOf(1)
    /\ PathOf(3) = PathOf(1)
    /\ \A i \in Served : RedirectedTo(i, Mapping[PathOf(i)])

\* C8: serving a request leaves the mapping (and the handler that holds it)
\* as it was built.
C8_MappingUnchanged ==
    [][built # "none" => handler' = handler]_vars

C8_Witness ==
    /\ Len(log) = 2
    /\ SomeRedirect(1)
    /\ SomeFallback(2)
    /\ PathOf(1) \in DOMAIN Mapping

\* C9: the mapping built from a parsed list has exactly the distinct listed
\* paths as keys, each with the url of the last item that lists it, and a
\* request for a path listed several times is redirected to that last url.
C9_LastDuplicateWins ==
    YAMLBuilt =>
        /\ DOMAIN Mapping = {Listed[i].Path : i \in 1..Len(Listed)}
        /\ \A i \in 1..Len(Listed) :
              (\A j \in (i + 1)..Len(Listed) : Listed[j].Path # Listed[i].Path)
                  => Mapping[Listed[i].Path] = Listed[i].URL
        /\ \A i \in Served, a, b \in 1..Len(Listed) :
              (a < b /\ Listed[a].Path = PathOf(i) /\ Listed[b].Path = PathOf(i)
                     /\ \A j \in (b + 1)..Len(Listed) : Listed[j].Path # PathOf(i))
                  => RedirectedTo(i, Listed[b].URL)

C9_Witness ==
    /\ YAMLBuilt
    /\ Len(Listed) = 2
    /\ Listed[1].Path = Listed[2].Path
    /\ Listed[1].URL # Listed[2].URL
    /\ Cardinality(DOMAIN Mapping) = 1
    /\ \E i \in Served : PathOf(i) = Listed[1].Path /\ RedirectedTo(i, Listed[2].URL)

\* C10: whether a request is redirected depends on its path being a key, not
\* on the value: a key with the empty url is answered by a 302 redirect to
\* the empty url and never delegated; a YAML item without a path is stored
\* under the key "", which only a request with the empty path matches, and a
\* YAML item with a path and no url stores the empty url under that path.
C10_PresenceDecides ==
    /\ \A i \in Served :
          /\ SomeRedirect(i) <=> PathOf(i) \in DOMAIN Mapping
          /\ (PathOf(i) \in DOMAIN Mapping /\ Mapping[PathOf(i)] = <<>>)
                 => RedirectedTo(i, <<>>) /\ ~SomeFallback(i)
    /\ YAMLBuilt =>
          /\ (\E n \in 1..Len(yml.nodes) : yml.nodes[n].path = Absent)
                 => <<>> \in DOMAIN Mapping
          /\ \A n \in 1..Len(yml.nodes) :
                 (/\ yml.nodes[n].path # Absent
                  /\ yml.nodes[n].url = Absent
                  /\ \A j \in (n + 1)..Len(yml.nodes) :
                        decodeNode(yml.nodes[j]).Path # yml.nodes[n].path)
                     => /\ yml.nodes[n].path \in DOMAIN Mapping
                        /\ Mapping[yml.nodes[n].path] = <<>>
          /\ \A i \in Served :
                 (/\ PathOf(i) # <<>>
                  /\ \A n \in 1..Len(yml.nodes) : yml.nodes[n].path # PathOf(i))
                     => Delegated(i)

C10_Witness ==
    /\ YAMLBuilt
    /\ Len(yml.nodes) = 2
    /\ yml.nodes[1].path = Absent /\ yml.nodes[1].url # Absent
    /\ yml.nodes[2].path # Absent /\ yml.nodes[2].path # <<>>
    /\ yml.nodes[2].url = Absent
    /\ \E i \in Served : PathOf(i) = yml.nodes[2].path /\ RedirectedTo(i, <<>>)
====
